---- MODULE Spec2Model ----
(***************************************************************************)
(* Model of the resume critic: AICritic (src/app/services/ai_critic.py),   *)
(* called by worker threads that share the process-global random generator *)
(* and the wall clock.  Resume texts are real strings; the analysis is     *)
(* computed on their characters as the Python code computes it.            *)
(***************************************************************************)
EXTENDS Integers, Sequences, FiniteSets, TLC

VARIABLES clock, rng, hash_seed, pc, req, locals, result, outcome,
          parse, http, unit

vars == <<clock, rng, hash_seed, pc, req, locals, result, outcome,
          parse, http, unit>>

(***************************************************************************)
(* Bounds.                                                                 *)
(***************************************************************************)
\* wall-clock second at which a run starts, and the last one it may reach
StartTime == 58
MaxTime == 60
\* number of states of the abstract random generator
RngMod == 64
\* number of values of the abstract string hash
HashMod == 32
\* largest per-process string-hash seed (PYTHONHASHSEED)
MaxHashSeed == 1
\* largest state the generator may be in when the process starts
MaxInitRng == 1

(***************************************************************************)
(* Characters and strings (Python str methods used by the code).           *)
(***************************************************************************)
Char(s, i) == SubSeq(s, i, i)

UpperChars == "ABCDEFGHIJKLMNOPQRSTUVWXYZ"
LowerChars == "abcdefghijklmnopqrstuvwxyz"
DigitChars == "0123456789"

InStr(c, s) == \E i \in 1..Len(s) : Char(s, i) = c

IndexIn(c, s) == CHOOSE i \in 1..Len(s) : Char(s, i) = c

IsDigit(c) == InStr(c, DigitChars)
IsUpper(c) == InStr(c, UpperChars)
IsLower(c) == InStr(c, LowerChars)
IsAlpha(c) == IsUpper(c) \/ IsLower(c)
\* \w of the re module
IsWordChar(c) == IsAlpha(c) \/ IsDigit(c) \/ c = "_"
\* \s of the re module, and the separators of str.split()
IsSpace(c) == c \in {" ", "\n", "\t"}

LowerChar(c) == IF IsUpper(c) THEN Char(LowerChars, IndexIn(c, UpperChars)) ELSE c
UpperChar(c) == IF IsLower(c) THEN Char(UpperChars, IndexIn(c, LowerChars)) ELSE c

\* str.lower()
RECURSIVE Lower(_)
Lower(s) ==
    IF Len(s) = 0 THEN ""
    ELSE IF Len(s) = 1 THEN LowerChar(s)
    ELSE LET h == Len(s) \div 2
         IN Lower(SubSeq(s, 1, h)) \o Lower(SubSeq(s, h + 1, Len(s)))

\* str.title(): a letter is upper-cased when the character before it is not
\* a letter, lower-cased otherwise
RECURSIVE TitleFrom(_, _)
TitleFrom(s, i) ==
    IF i > Len(s) THEN ""
    ELSE LET c == Char(s, i)
             first == i = 1 \/ ~IsAlpha(Char(s, i - 1))
         IN (IF first THEN UpperChar(c) ELSE LowerChar(c)) \o TitleFrom(s, i + 1)

Title(s) == TitleFrom(s, 1)

\* the Python test `kw in t` on strings
Contains(kw, t) ==
    \E i \in 1..(Len(t) - Len(kw) + 1) : SubSeq(t, i, i + Len(kw) - 1) = kw

\* len(s.split())
WordCount(s) ==
    Cardinality({i \in 1..Len(s) :
        ~IsSpace(Char(s, i)) /\ (i = 1 \/ IsSpace(Char(s, i - 1)))})

\* s.strip() is non-empty
NonBlank(s) == \E i \in 1..Len(s) : ~IsSpace(Char(s, i))

\* len([line.strip() for line in s.split('\n') if line.strip()]): the lines
\* are the stretches between consecutive newlines; a line counts when it
\* holds a non-space character
LineBreaks(s) == {0, Len(s) + 1} \cup {i \in 1..Len(s) : Char(s, i) = "\n"}

LineCount(s) ==
    LET NL == LineBreaks(s)
        nxt(a) == CHOOSE b \in NL : b > a /\ \A c \in NL : c > a => c >= b
    IN Cardinality({a \in NL \ {Len(s) + 1} :
           \E i \in (a + 1)..(nxt(a) - 1) : ~IsSpace(Char(s, i))})

\* ', '.join(list)
RECURSIVE Join(_, _)
Join(list, sep) ==
    IF Len(list) = 0 THEN ""
    ELSE IF Len(list) = 1 THEN list[1]
    ELSE list[1] \o sep \o Join(Tail(list), sep)

\* list[:n]
Take(list, n) == SubSeq(list, 1, IF Len(list) < n THEN Len(list) ELSE n)

\* w repeated n times
RECURSIVE Repeat(_, _)
Repeat(w, n) ==
    IF n = 0 THEN ""
    ELSE IF n = 1 THEN w
    ELSE LET h == Repeat(w, n \div 2)
         IN IF n % 2 = 0 THEN h \o h ELSE h \o h \o w

(***************************************************************************)
(* Regular expressions of _analyze_content, as existence of a match.       *)
(***************************************************************************)
\* \b before position i (between characters i-1 and i)
IsWordAt(s, i) == i >= 1 /\ i <= Len(s) /\ IsWordChar(Char(s, i))

WordBoundary(s, i) == IsWordAt(s, i - 1) # IsWordAt(s, i)

\* \d{n}: the characters a..b are digits
AllDigits(s, a, b) == \A k \in a..b : IsDigit(Char(s, k))

\* [A-Za-z0-9._%+-]
EmailLocalChar(c) == IsAlpha(c) \/ IsDigit(c) \/ c \in {".", "_", "%", "+", "-"}
\* [A-Za-z0-9.-]
EmailDomainChar(c) == IsAlpha(c) \/ IsDigit(c) \/ c \in {".", "-"}
\* [A-Z|a-z]
EmailTldChar(c) == IsAlpha(c) \/ c = "|"

\* re.search(r'\b[A-Za-z0-9._%+-]+@[A-Za-z0-9.-]+\.[A-Z|a-z]{2,}\b', s):
\* local part a..at-1, domain at+1..d-1, dot at d, top-level part d+1..e
HasEmail(s) ==
    \E at \in 1..Len(s) :
        /\ Char(s, at) = "@"
        /\ \E a \in 1..(at - 1) :
              /\ (\A k \in (a)..(at - 1) : EmailLocalChar(Char(s, k)))
              /\ WordBoundary(s, a)
        /\ \E d \in (at + 2)..Len(s) :
              /\ Char(s, d) = "."
              /\ (\A k \in (at + 1)..(d - 1) : EmailDomainChar(Char(s, k)))
              /\ \E e \in (d + 2)..Len(s) :
                    /\ (\A k \in (d + 1)..(e) : EmailTldChar(Char(s, k)))
                    /\ WordBoundary(s, e + 1)

\* [-.\s]
PhoneSep(c) == c \in {"-", "."} \/ IsSpace(c)

\* re.search(r'(\(?\d{3}\)?[-.\s]?\d{3}[-.\s]?\d{4})', s): o1..o4 say which
\* of the four optional characters are taken
HasPhone(s) ==
    \E i \in 1..Len(s) :
        /\ Char(s, i) = "(" \/ IsDigit(Char(s, i))
        /\ \E o1, o2, o3, o4 \in {0, 1} :
              LET p1 == i + o1
                  p2 == p1 + 3
                  p3 == p2 + o2
                  p4 == p3 + o3
                  p5 == p4 + 3
                  p6 == p5 + o4
              IN /\ p6 + 3 <= Len(s)
                 /\ o1 = 1 => Char(s, i) = "("
                 /\ AllDigits(s, p1, p1 + 2)
                 /\ o2 = 1 => Char(s, p2) = ")"
                 /\ o3 = 1 => PhoneSep(Char(s, p3))
                 /\ AllDigits(s, p4, p4 + 2)
                 /\ o4 = 1 => PhoneSep(Char(s, p5))
                 /\ AllDigits(s, p6, p6 + 3)

\* last position of the run of digits that starts at p
DigitRunEnd(s, p) ==
    CHOOSE e \in p..Len(s) :
        /\ AllDigits(s, p, e)
        /\ (e = Len(s) \/ ~IsDigit(Char(s, e + 1)))

\* the verbs of the alternatives  increased.*\d+ | improved.*\d+ | reduced.*\d+
AchievementVerbs == <<"increased", "improved", "reduced">>

\* w occurs in s at position p
StartsAt(s, p, w) == p + Len(w) - 1 <= Len(s) /\ SubSeq(s, p, p + Len(w) - 1) = w

\* first newline at or after p, or Len(s)+1: '.' does not match a newline
LineEnd(s, p) ==
    CHOOSE e \in p..(Len(s) + 1) :
        /\ (e = Len(s) + 1 \/ Char(s, e) = "\n")
        /\ \A k \in p..(e - 1) : Char(s, k) # "\n"

\* End of the match of r'\d+%|\d+x|\d+\+|increased.*\d+|improved.*\d+|reduced.*\d+'
\* that starts at p, or 0 when none starts there.  \d+ followed by a
\* non-digit can only be the whole run; the greedy .* runs to the last digit
\* of the line, where \d+ takes that one digit.
AchievementMatchEnd(s, p) ==
    IF IsDigit(Char(s, p))
    THEN LET r == DigitRunEnd(s, p)
         IN IF r < Len(s) /\ Char(s, r + 1) \in {"%", "x", "+"} THEN r + 1 ELSE 0
    ELSE IF \E v \in 1..Len(AchievementVerbs) : StartsAt(s, p, AchievementVerbs[v])
    THEN LET v == CHOOSE w \in 1..Len(AchievementVerbs) :
                     StartsAt(s, p, AchievementVerbs[w])
             from == p + Len(AchievementVerbs[v])
             digits == {k \in from..(LineEnd(s, from) - 1) : IsDigit(Char(s, k))}
         IN IF digits = {} THEN 0
            ELSE CHOOSE k \in digits : \A j \in digits : j <= k
    ELSE 0

\* len(re.findall(pattern, s)): the matches are taken leftmost first and do
\* not overlap
RECURSIVE CountMatchesFrom(_, _, _)
CountMatchesFrom(s, starts, from) ==
    LET later == {p \in starts : p >= from}
    IN IF later = {} THEN 0
       ELSE LET p == CHOOSE q \in later : \A r \in later : q <= r
            IN 1 + CountMatchesFrom(s, starts, AchievementMatchEnd(s, p) + 1)

CountAchievements(s) ==
    CountMatchesFrom(s, {p \in 1..Len(s) : AchievementMatchEnd(s, p) # 0}, 1)

(***************************************************************************)
(* AICritic.__init__: the keyword table, in dictionary order.              *)
(***************************************************************************)
TechKeywords ==
    << <<"languages", <<"python", "javascript", "java", "c++", "c#", "php", "ruby", "go", "rust", "swift">> >>,
       <<"web", <<"html", "css", "react", "angular", "vue", "node", "express", "django", "flask">> >>,
       <<"databases", <<"sql", "mysql", "postgresql", "mongodb", "redis", "sqlite">> >>,
       <<"tools", <<"git", "docker", "kubernetes", "aws", "azure", "gcp", "jenkins", "terraform">> >>,
       <<"concepts", <<"api", "rest", "graphql", "microservices", "devops", "ci/cd", "agile", "scrum">> >> >>

use_mock == TRUE

\* the keywords of all categories, in iteration order
RECURSIVE FlattenKeywords(_)
FlattenKeywords(table) ==
    IF Len(table) = 0 THEN <<>>
    ELSE table[1][2] \o FlattenKeywords(Tail(table))

\* [keyword.title() for keyword in list if keyword in text_lower]
RECURSIVE MatchKeywords(_, _)
MatchKeywords(list, text_lower) ==
    IF Len(list) = 0 THEN <<>>
    ELSE (IF Contains(list[1], text_lower) THEN <<Title(list[1])>> ELSE <<>>)
         \o MatchKeywords(Tail(list), text_lower)

\* any(word in text for word in words)
AnyIn(words, text) == \E w \in words : Contains(w, text)

(***************************************************************************)
(* AICritic._get_format_suggestions                                        *)
(***************************************************************************)
FormatFallback == "Ensure consistent formatting throughout document"

FormatRules(word_count, sections, achievements) ==
    (IF word_count > 600
     THEN <<"Use bullet points to make content more scannable">> ELSE <<>>)
    \o (IF achievements = 0
        THEN <<"Use bullet points starting with action verbs (Developed, Implemented, Achieved)">>
        ELSE <<>>)
    \o (IF Len(sections) < 3
        THEN <<"Add clear section headers to improve organization">> ELSE <<>>)

_get_format_suggestions(word_count, sections, achievements) ==
    FormatRules(word_count, sections, achievements) \o <<FormatFallback>>

(***************************************************************************)
(* AICritic._analyze_content                                               *)
(***************************************************************************)
FoundKeywords(table, text_lower) ==
    MatchKeywords(FlattenKeywords(table), text_lower)

ImportantMissing(text_lower) ==
    (IF ~Contains("git", text_lower) THEN <<"Git">> ELSE <<>>)
    \o (IF ~Contains("api", text_lower) THEN <<"API">> ELSE <<>>)
    \o (IF ~Contains("sql", text_lower) /\ ~Contains("database", text_lower)
        THEN <<"SQL">> ELSE <<>>)
    \o (IF ~Contains("agile", text_lower) /\ ~Contains("scrum", text_lower)
        THEN <<"Agile">> ELSE <<>>)

SectionsFound(text_lower) ==
    (IF AnyIn({"experience", "work", "employment"}, text_lower)
     THEN <<"Experience">> ELSE <<>>)
    \o (IF AnyIn({"education", "degree", "university", "college"}, text_lower)
        THEN <<"Education">> ELSE <<>>)
    \o (IF AnyIn({"project", "projects"}, text_lower) THEN <<"Projects">> ELSE <<>>)
    \o (IF AnyIn({"skill", "skills", "technical"}, text_lower)
        THEN <<"Skills">> ELSE <<>>)

\* the found keywords without the cut to eight
AllKeywords(found_keywords) == found_keywords

\* 'found_keywords': found_keywords[:8]
TopKeywords(found_keywords) == Take(found_keywords, 8)

\* the record _analyze_content returns, from the signals it has computed
AnalysisRecord(word_count, line_count, has_email, has_phone, has_linkedin, has_github, found_keywords, important_missing, sections_found, achievements_with_numbers) ==
    [word_count |-> word_count,
     line_count |-> line_count,
     has_email |-> has_email,
     has_phone |-> has_phone,
     has_linkedin |-> has_linkedin,
     has_github |-> has_github,
     found_keywords |-> TopKeywords(found_keywords),
     missing_keywords |-> Take(important_missing, 4),
     keyword_density |->
         IF Len(found_keywords) > 10 THEN "Excellent"
         ELSE IF Len(found_keywords) > 5 THEN "Good" ELSE "Needs Improvement",
     sections_found |-> sections_found,
     achievements_with_numbers |-> achievements_with_numbers,
     structure_feedback |->
         IF Len(sections_found) > 0
         THEN "Contains " \o ToString(Len(sections_found)) \o " key sections: "
              \o Join(sections_found, ", ")
         ELSE "Basic structure detected",
     readability_feedback |->
         IF 250 <= word_count /\ word_count <= 600
         THEN "Good length with " \o ToString(word_count) \o " words"
         ELSE "Consider adjusting length (currently " \o ToString(word_count)
              \o " words)",
     format_suggestions |->
         _get_format_suggestions(word_count, sections_found, achievements_with_numbers)]

_analyze_content(resume_text) ==
    LET text_lower == Lower(resume_text)
    IN AnalysisRecord(WordCount(resume_text),
                      LineCount(resume_text),
                      HasEmail(resume_text),
                      HasPhone(resume_text),
                      Contains("linkedin", text_lower),
                      Contains("github", text_lower),
                      FoundKeywords(TechKeywords, text_lower),
                      ImportantMissing(text_lower),
                      SectionsFound(text_lower),
                      CountAchievements(text_lower))

(***************************************************************************)
(* The resume texts the callers submit.                                    *)
(***************************************************************************)
EmptyResume == ""

BlankResume == " \n\t "

\* keywords only inside longer words: go in Google, git in digital, rest in interests
SubstringResume == "I work at Google in digital media. My interests: travel."

GithubResume == "See github.com/jane for code"

MediumResume ==
    "Jane Doe jane@mail.com\nPython and SQL developer\nExperience and education\nImproved build speed 5x"

RichResume ==
    "Jane Doe jane.doe@mail.com (555) 123-4567 linkedin.com/in/jane github.com/jane\n"
    \o "Experience\nIncreased sales by 20%\nReduced costs 3x\nShipped 10+ releases\n"
    \o "Education\nUniversity degree\nProjects\n"
    \o "Skills: Python, JavaScript, Django, PostgreSQL, MySQL, MongoDB, Redis, Docker, REST API, Agile\n"
    \o Repeat("lorem ", 250)

LongResume == "Experience Education\n" \o Repeat("lorem ", 801)

\* a short text naming many keywords
KeywordResume ==
    "Experience education projects skills: python java javascript react django "
    \o "mysql redis docker aws api rest agile"

ResumeTexts ==
    {EmptyResume, BlankResume, SubstringResume, GithubResume, MediumResume,
     RichResume, LongResume, KeywordResume}

\* _analyze_content tabulated over the submitted texts
Analyses == [t \in ResumeTexts |-> _analyze_content(t)]

(***************************************************************************)
(* AICritic._calculate_dynamic_score; jitter is the value returned by      *)
(* random.randint(-5, 5).                                                  *)
(***************************************************************************)
Min(a, b) == IF a < b THEN a ELSE b
Max(a, b) == IF a > b THEN a ELSE b

WordCountPoints(word_count) ==
    IF 250 <= word_count /\ word_count <= 600 THEN 5
    ELSE IF word_count < 200 THEN -10
    ELSE IF word_count > 800 THEN -5
    ELSE 0

ContactPoints(a) ==
    (IF a.has_email THEN 5 ELSE 0) + (IF a.has_phone THEN 5 ELSE 0)
    + (IF a.has_linkedin THEN 3 ELSE 0) + (IF a.has_github THEN 3 ELSE 0)

KeywordPoints(keyword_count) ==
    IF keyword_count > 8 THEN 10
    ELSE IF keyword_count > 4 THEN 5
    ELSE IF keyword_count < 2 THEN -5
    ELSE 0

SectionPoints(section_count) ==
    IF section_count >= 4 THEN 8
    ELSE IF section_count >= 3 THEN 5
    ELSE IF section_count < 2 THEN -10
    ELSE 0

AchievementPoints(n) == IF n > 2 THEN 8 ELSE IF n > 0 THEN 4 ELSE -5

\* base_score just before the clamp
UnclampedScore(a, jitter) ==
    70 + WordCountPoints(a.word_count) + ContactPoints(a)
       + KeywordPoints(Len(a.found_keywords))
       + SectionPoints(Len(a.sections_found))
       + AchievementPoints(a.achievements_with_numbers)
       + jitter

\* the clamp without its upper limit
ClampScoreNoCeiling(base_score) == Max(60, base_score)

ClampScore(base_score) == Max(60, Min(95, base_score))

_calculate_dynamic_score(a, jitter) == ClampScore(UnclampedScore(a, jitter))

(***************************************************************************)
(* datetime.now().strftime(...) for a clock that counts the seconds of the *)
(* first hour of 1970-01-01.                                               *)
(***************************************************************************)
Pad2(n) == IF n < 10 THEN "0" \o ToString(n) ELSE ToString(n)

\* '%Y-%m-%d at %H:%M'
StrfMinute(now) == "1970-01-01 at 00:" \o Pad2(now \div 60)

\* '%Y-%m-%d %H:%M:%S'
StrfSecond(now) == "1970-01-01 00:" \o Pad2(now \div 60) \o ":" \o Pad2(now % 60)

(***************************************************************************)
(* AICritic._generate_strengths                                            *)
(***************************************************************************)
StrengthRules(a) ==
    (IF a.word_count >= 250
     THEN <<"Well-detailed resume with " \o ToString(a.word_count)
            \o " words showing comprehensive experience">>
     ELSE <<>>)
    \o (IF a.has_email /\ a.has_phone
        THEN <<"Complete contact information makes you easy to reach">> ELSE <<>>)
    \o (IF Len(a.found_keywords) > 5
        THEN <<"Strong technical vocabulary with " \o ToString(Len(a.found_keywords))
               \o " relevant keywords: " \o Join(Take(a.found_keywords, 3), ", ")>>
        ELSE <<>>)
    \o (IF Len(a.sections_found) >= 3
        THEN <<"Well-organized structure with clear sections: "
               \o Join(a.sections_found, ", ")>>
        ELSE <<>>)
    \o (IF a.achievements_with_numbers > 0
        THEN <<"Includes " \o ToString(a.achievements_with_numbers)
               \o " quantified achievement(s) - great for demonstrating impact">>
        ELSE <<>>)
    \o (IF a.has_github
        THEN <<"GitHub profile included - shows commitment to code sharing and collaboration">>
        ELSE <<>>)

StrengthTimestamp(now) ==
    "Analysis completed on " \o StrfMinute(now) \o " - fresh perspective provided"

generic_strengths ==
    <<"Professional presentation and clear formatting",
      "Demonstrates relevant experience in the field",
      "Good use of industry-appropriate terminology",
      "Shows progression and growth in career/education">>

\* while len(strengths) < 4: strengths.append(generic_strengths[len(strengths) % 4])
RECURSIVE PadStrengths(_)
PadStrengths(strengths) ==
    IF Len(strengths) < 4
    THEN PadStrengths(Append(strengths,
             generic_strengths[(Len(strengths) % Len(generic_strengths)) + 1]))
    ELSE strengths

\* _generate_strengths without the timestamp entry
GenerateStrengthsNoTimestamp(a, now) == Take(PadStrengths(StrengthRules(a)), 4)

_generate_strengths(a, now) ==
    Take(PadStrengths(Append(StrengthRules(a), StrengthTimestamp(now))), 4)

(***************************************************************************)
(* AICritic._generate_improvements                                         *)
(***************************************************************************)
ImprovementRules(a) ==
    (IF a.word_count < 250
     THEN <<"Expand content - current " \o ToString(a.word_count)
            \o " words is quite brief for a comprehensive resume">>
     ELSE IF a.word_count > 700
     THEN <<"Consider condensing - " \o ToString(a.word_count)
            \o " words may be too lengthy for initial screening">>
     ELSE <<>>)
    \o (IF ~a.has_email
        THEN <<"Add a professional email address to contact information">> ELSE <<>>)
    \o (IF ~a.has_phone
        THEN <<"Include a phone number for direct contact">> ELSE <<>>)
    \o (IF Len(a.found_keywords) < 5
        THEN <<"Increase technical keywords to improve ATS (Applicant Tracking System) compatibility">>
        ELSE <<>>)
    \o (IF a.achievements_with_numbers = 0
        THEN <<"Add quantified achievements (percentages, dollar amounts, timeframes) to demonstrate impact">>
        ELSE <<>>)
    \o (IF ~a.has_linkedin
        THEN <<"Consider adding LinkedIn profile to showcase professional network">>
        ELSE <<>>)
    \o (IF \A i \in 1..Len(a.sections_found) : a.sections_found[i] # "Projects"
        THEN <<"Add a projects section to showcase hands-on technical experience">>
        ELSE <<>>)

ImprovementFallback ==
    "Consider adding more specific examples of your technical accomplishments"

\* the improvements without the final [:4]
ImprovementsUntruncated(a) ==
    LET improvements == ImprovementRules(a)
    IN IF Len(improvements) = 0 THEN <<ImprovementFallback>> ELSE improvements

_generate_improvements(a) ==
    LET improvements == ImprovementRules(a)
    IN Take(IF Len(improvements) = 0 THEN <<ImprovementFallback>> ELSE improvements, 4)

(***************************************************************************)
(* AICritic._generate_recommendations                                      *)
(***************************************************************************)
AllSections == <<"Experience", "Education", "Projects", "Skills">>

\* Iteration orders of a set of the four section names: the order depends on
\* the string hashes, which are fixed for the life of a process.
SectionOrders ==
    << <<"Skills", "Experience", "Education", "Projects">>,
       <<"Education", "Skills", "Projects", "Experience">>,
       <<"Projects", "Skills", "Experience", "Education">> >>

RECURSIVE KeepMembers(_, _)
KeepMembers(list, set) ==
    IF Len(list) = 0 THEN <<>>
    ELSE (IF list[1] \in set THEN <<list[1]>> ELSE <<>>) \o KeepMembers(Tail(list), set)

Elements(list) == {list[i] : i \in 1..Len(list)}

\* list(set(sections))
ListOfSet(set, seed) == KeepMembers(SectionOrders[(seed % Len(SectionOrders)) + 1], set)

RecommendKeywords(a) ==
    IF Len(a.missing_keywords) > 0
    THEN <<"Consider adding these relevant keywords: " \o Join(a.missing_keywords, ", ")>>
    ELSE <<>>

RecommendMetrics(a) ==
    IF a.achievements_with_numbers < 2
    THEN <<"Add more metrics: 'Improved performance by 25%', 'Managed team of 5', 'Completed project 2 weeks ahead of schedule'">>
    ELSE <<>>

RecommendSections(a, seed) ==
    LET missing_sections == Elements(AllSections) \ Elements(a.sections_found)
    IN IF Len(a.sections_found) < 4 /\ missing_sections # {}
       THEN <<"Consider adding these sections: "
              \o Join(Take(ListOfSet(missing_sections, seed), 2), ", ")>>
       ELSE <<>>

TailorAdvice ==
    "Tailor keywords and examples to match specific job descriptions you're applying for"

RecommendationTimestamp(now) ==
    "Last analyzed: " \o StrfSecond(now) \o " - re-analyze after making changes"

\* the timestamp appended before the advice instead of after it
RecommendationsTimestampFirst(a, now, seed) ==
    Take(RecommendKeywords(a) \o RecommendMetrics(a) \o RecommendSections(a, seed)
         \o <<RecommendationTimestamp(now), TailorAdvice>>, 4)

_generate_recommendations(a, now, seed) ==
    Take(RecommendKeywords(a) \o RecommendMetrics(a) \o RecommendSections(a, seed)
         \o <<TailorAdvice, RecommendationTimestamp(now)>>, 4)

(***************************************************************************)
(* Process-global state used by _dynamic_mock_analysis: the string hash    *)
(* and the generator of the random module, both abstracted to small        *)
(* deterministic functions.                                                *)
(***************************************************************************)
CodeChars == " abcdefghijklmnopqrstuvwxyz0123456789.@-"

CharCode(c) == IF InStr(c, CodeChars) THEN IndexIn(c, CodeChars) ELSE 0

RECURSIVE CodeSum(_)
CodeSum(s) ==
    IF Len(s) = 0 THEN 0
    ELSE IF Len(s) = 1 THEN CharCode(s)
    ELSE LET h == Len(s) \div 2
         IN CodeSum(SubSeq(s, 1, h)) + CodeSum(SubSeq(s, h + 1, Len(s)))

\* hash(s) in a process whose hash seed is `seed`
StrHash(s, seed) == (CodeSum(s) + Len(s) + 13 * seed) % HashMod

\* hash(resume_text.lower()) tabulated over the submitted texts
ContentHashes ==
    [t \in ResumeTexts |-> [h \in 0..MaxHashSeed |-> StrHash(Lower(t), h)]]

\* random.seed(a): the generator state the seed leads to
RandomSeed(a) == a % RngMod

\* random.randint(-5, 5): the value drawn in generator state r
RandInt(r) == (r % 11) - 5

\* the generator state after one draw
RandomAdvance(r) == (5 * r + 3) % RngMod

(***************************************************************************)
(* Callers.  Each worker thread handles one call of analyze_resume; an     *)
(* optional argument is None or a string, and the industry keyword         *)
(* argument may be absent from the call altogether.                        *)
(***************************************************************************)
Threads == {1, 2}

None == [tag |-> "None"]
Str(v) == [tag |-> "str", v |-> v]
NotPassed == [tag |-> "absent"]

\* job descriptions the callers submit; the posting names terms of the
\* keyword table that no submitted resume contains
JobPosting == "Engineer for Kubernetes, Terraform and AWS"

JobDescriptions == {None, Str(JobPosting)}

\* the industry selector values of the upload form
IndustryKeys ==
    {"technology", "healthcare", "education", "sales_marketing",
     "finance_accounting", "operations_hr", "arts_media", "service_retail"}

IndustryArgs == {NotPassed, None, Str("technology"), Str("astrology")}

(***************************************************************************)
(* ResumeParser (src/app/services/pdf_parser.py).  An uploaded file is     *)
(* its bytes (data) together with what the container libraries make of     *)
(* those bytes: zip is the outcome of zipfile.ZipFile(...).namelist(), pdf *)
(* the outcome of PdfReader(...).pages, docx the outcome of Document(...). *)
(***************************************************************************)
PARSER_VERSION == "sniff-2"

BadZipFile == [tag |-> "BadZipFile"]
ZipNames(names) == [tag |-> "names", names |-> names]

\* the library rejects the bytes
Unreadable == [tag |-> "raises"]

\* the pages of a PDF; a page is the value of page.extract_text(): a string,
\* None, or PageRaises when the extraction of that page raises
PdfPages(pages) == [tag |-> "pages", pages |-> pages]
PageRaises == [tag |-> "raises"]

\* the paragraph texts of a document and its table cell texts, row by row
DocxBody(paragraphs, cells) ==
    [tag |-> "doc", paragraphs |-> paragraphs, cells |-> cells]

\* the outcomes of a call
Ok(text) == [tag |-> "returned", text |-> text]
Raise(error, detail) == [tag |-> "raises", error |-> error, detail |-> detail]

\* str.strip()
Strip(s) ==
    LET inked == {i \in 1..Len(s) : ~IsSpace(Char(s, i))}
    IN IF inked = {} THEN ""
       ELSE SubSeq(s, CHOOSE i \in inked : \A j \in inked : i <= j,
                      CHOOSE i \in inked : \A j \in inked : i >= j)

\* b[:n] == prefix
StartsWith(b, prefix) == StartsAt(b, 1, prefix)

\* s.rfind(c), counted from 1; 0 when c does not occur
LastIndexOf(c, s) ==
    LET at == {i \in 1..Len(s) : Char(s, i) = c}
    IN IF at = {} THEN 0 ELSE CHOOSE i \in at : \A j \in at : i >= j

\* os.path.splitext(p)[1]: from the last dot of the last path component,
\* unless only dots precede it in that component
SplitExt(p) ==
    LET sepIndex == LastIndexOf("/", p)
        dotIndex == LastIndexOf(".", p)
    IN IF /\ dotIndex > sepIndex
          /\ \E i \in (sepIndex + 1)..(dotIndex - 1) : Char(p, i) # "."
       THEN SubSeq(p, dotIndex, Len(p))
       ELSE ""

\* ResumeParser._detect_kind
_detect_kind(b) ==
    IF Len(b.data) >= 5 /\ StartsWith(b.data, "%PDF-") THEN Str("pdf")
    ELSE IF /\ Len(b.data) >= 2 /\ StartsWith(b.data, "PK")
            /\ b.zip # BadZipFile
            /\ "[Content_Types].xml" \in b.zip.names
            /\ \E n \in b.zip.names : StartsWith(n, "word/")
    THEN Str("docx")
    ELSE None

\* the hint taken from the filename whatever the sniffing found
ExtensionHintAlways(kind, filename) ==
    IF filename # None /\ filename.v # ""
    THEN LET ext == SplitExt(Lower(filename.v))
         IN IF ext \in {".pdf", ".docx"} THEN Str(SubSeq(ext, 2, Len(ext))) ELSE kind
    ELSE kind

\* the extension hint of parse_resume
ExtensionHint(kind, filename) ==
    IF kind = None /\ filename # None /\ filename.v # ""
    THEN LET ext == SplitExt(Lower(filename.v))
         IN IF ext \in {".pdf", ".docx"} THEN Str(SubSeq(ext, 2, Len(ext))) ELSE kind
    ELSE kind

\* out of _parse_pdf: page.extract_text() or "", skipping the pages that raise
RECURSIVE PageTexts(_)
PageTexts(pages) ==
    IF Len(pages) = 0 THEN <<>>
    ELSE (IF pages[1] = PageRaises THEN <<>>
          ELSE IF pages[1] = None THEN <<"">>
          ELSE <<pages[1].v>>)
         \o PageTexts(Tail(pages))

\* _parse_pdf without the test of the extracted text
ParsePdfUnchecked(b) ==
    IF b.pdf = Unreadable THEN Raise("PdfReadError", "")
    ELSE Ok(Strip(Join(PageTexts(b.pdf.pages), "\n")))

\* ResumeParser._parse_pdf
_parse_pdf(b) ==
    IF b.pdf = Unreadable THEN Raise("PdfReadError", "")
    ELSE LET text == Strip(Join(PageTexts(b.pdf.pages), "\n"))
         IN IF text = "" THEN Raise("ValueError", "Unable to extract text from PDF")
            ELSE Ok(text)

\* [p.text for p in doc.paragraphs if p.text and p.text.strip()]
RECURSIVE ParagraphParts(_)
ParagraphParts(paragraphs) ==
    IF Len(paragraphs) = 0 THEN <<>>
    ELSE (IF NonBlank(paragraphs[1]) THEN <<paragraphs[1]>> ELSE <<>>)
         \o ParagraphParts(Tail(paragraphs))

\* cell.text.strip() for the cells with cell.text and cell.text.strip()
RECURSIVE CellParts(_)
CellParts(cells) ==
    IF Len(cells) = 0 THEN <<>>
    ELSE (IF NonBlank(cells[1]) THEN <<Strip(cells[1])>> ELSE <<>>)
         \o CellParts(Tail(cells))

\* ResumeParser._parse_docx
_parse_docx(b) ==
    IF b.docx = Unreadable THEN Raise("PackageNotFoundError", "")
    ELSE LET parts == ParagraphParts(b.docx.paragraphs) \o CellParts(b.docx.cells)
             text == Strip(Join(parts, "\n"))
         IN IF text = "" THEN Raise("ValueError", "Unable to extract text from DOCX")
            ELSE Ok(text)

\* the dispatch of parse_resume on the kind it settled on
Extraction(kind, b) ==
    IF kind = Str("pdf") THEN _parse_pdf(b)
    ELSE IF kind = Str("docx") THEN _parse_docx(b)
    ELSE Raise("ValueError", "Unsupported or unknown file type.")

\* ResumeParser.parse_resume as a whole
ParseOutcome(filename, file_bytes) ==
    IF file_bytes.data = "" THEN Raise("ValueError", "Empty file")
    ELSE Extraction(ExtensionHint(_detect_kind(file_bytes), filename), file_bytes)

(***************************************************************************)
(* The files the clients upload, and the names they give them.             *)
(***************************************************************************)
NotDocx == {"[Content_Types].xml", "xl/workbook.xml", "xl/worksheets/sheet1.xml"}
DocxNames == {"[Content_Types].xml", "word/document.xml", "docProps/core.xml"}

EmptyFile ==
    [data |-> "", zip |-> BadZipFile, pdf |-> Unreadable, docx |-> Unreadable]

\* a PDF of two pages whose text is MediumResume
PdfFile ==
    [data |-> "%PDF-1.4", zip |-> BadZipFile,
     pdf |-> PdfPages(<<Str("Jane Doe jane@mail.com\nPython and SQL developer"),
                        Str("Experience and education\nImproved build speed 5x\n")>>),
     docx |-> Unreadable]

\* a PDF of page images: no page yields text
ScannedPdf ==
    [data |-> "%PDF-1.7", zip |-> BadZipFile,
     pdf |-> PdfPages(<<Str(""), None, Str(" \n\t")>>), docx |-> Unreadable]

\* a PDF header followed by damaged content
CorruptPdf ==
    [data |-> "%PDF-1.4 damaged", zip |-> BadZipFile, pdf |-> Unreadable,
     docx |-> Unreadable]

\* a PDF with one page whose extraction raises
PartlyReadablePdf ==
    [data |-> "%PDF-1.5", zip |-> BadZipFile,
     pdf |-> PdfPages(<<PageRaises, Str("  See github.com/jane for code \n")>>),
     docx |-> Unreadable]

\* a PDF whose header is preceded by a newline: the reader accepts it
OffsetPdf ==
    [data |-> "\n%PDF-1.4", zip |-> BadZipFile,
     pdf |-> PdfPages(<<Str("See github.com/jane for code")>>), docx |-> Unreadable]

\* four bytes only
ShortFile ==
    [data |-> "%PDF", zip |-> BadZipFile, pdf |-> Unreadable, docx |-> Unreadable]

\* a Word document with paragraphs and a table; its text is MediumResume
DocxFile ==
    [data |-> "PK..[Content_Types].xml", zip |-> ZipNames(DocxNames),
     pdf |-> Unreadable,
     docx |-> DocxBody(<<"Jane Doe jane@mail.com", " ", "Python and SQL developer">>,
                       <<" Experience and education ", "", "Improved build speed 5x">>)]

\* a Word document without text
BlankDocx ==
    [data |-> "PK..[Content_Types].xml", zip |-> ZipNames(DocxNames),
     pdf |-> Unreadable, docx |-> DocxBody(<<"", " \t">>, <<" ", "">>)]

\* a Word document behind leading bytes, as a self-extracting archive has
PrefixedDocx ==
    [data |-> "MZ..PK..", zip |-> ZipNames(DocxNames), pdf |-> Unreadable,
     docx |-> DocxBody(<<"See github.com/jane for code">>, <<>>)]

\* a spreadsheet: a zip archive that is not a Word document
SpreadsheetFile ==
    [data |-> "PK..[Content_Types].xml", zip |-> ZipNames(NotDocx),
     pdf |-> Unreadable, docx |-> Unreadable]

\* a zip archive with a word/ entry and no content-types part
PlainZip ==
    [data |-> "PK..word/notes.txt", zip |-> ZipNames({"word/notes.txt"}),
     pdf |-> Unreadable, docx |-> Unreadable]

\* the zip signature followed by damaged content
BrokenZip ==
    [data |-> "PK damaged", zip |-> BadZipFile, pdf |-> Unreadable,
     docx |-> Unreadable]

TextFile ==
    [data |-> "Jane Doe, resume", zip |-> BadZipFile, pdf |-> Unreadable,
     docx |-> Unreadable]

\* a PDF with a Word document appended: both libraries read it
PolyglotFile ==
    [data |-> "%PDF-1.4", zip |-> ZipNames(DocxNames),
     pdf |-> PdfPages(<<Str("See github.com/jane for code")>>),
     docx |-> DocxBody(<<"Jane Doe jane@mail.com">>, <<>>)]

Files ==
    {EmptyFile, PdfFile, ScannedPdf, CorruptPdf, PartlyReadablePdf, OffsetPdf,
     ShortFile, DocxFile, BlankDocx, PrefixedDocx, SpreadsheetFile, PlainZip,
     BrokenZip, TextFile, PolyglotFile}

Filenames ==
    {None, Str(""), Str("resume.pdf"), Str("Resume.DOCX"), Str("resume.txt"),
     Str(".pdf"), Str("cv.docx.pdf")}

NoRequest == [tag |-> "absent"]
NoLocals == [tag |-> "absent"]
NoResult == [tag |-> "absent"]

\* no call of the parser, no upload, no call of a feedback generator
NoParse == [stage |-> "idle"]
NoUpload == [stage |-> "idle"]
NoUnit == [stage |-> "idle"]

Stages == {"idle", "seeded", "analyzed", "scored", "feedback", "done"}

Init ==
    /\ clock = StartTime
    /\ rng \in 0..MaxInitRng
    /\ hash_seed \in 0..MaxHashSeed
    /\ pc = [t \in Threads |-> "idle"]
    /\ req = [t \in Threads |-> NoRequest]
    /\ locals = [t \in Threads |-> NoLocals]
    /\ result = [t \in Threads |-> NoResult]
    /\ outcome = [t \in Threads |-> "none"]
    /\ parse = [t \in Threads |-> NoParse]
    /\ http = [t \in Threads |-> NoUpload]
    /\ unit = NoUnit

\* the wall clock advances by a second
Tick ==
    /\ clock < MaxTime
    /\ clock' = clock + 1
    /\ UNCHANGED <<rng, hash_seed, pc, req, locals, result, outcome>>
    /\ UNCHANGED <<parse, http, unit>>

\* analyze_resume(resume_text, job_description[, industry=...]): the call is
\* bound to the signature (self, resume_text, job_description=None), so an
\* industry keyword raises TypeError; otherwise use_mock sends the call to
\* _dynamic_mock_analysis(resume_text), which first seeds the global
\* generator from the clock and the hash of the text.
analyze_resume(t) ==
    /\ pc[t] = "idle"
    /\ \E text \in ResumeTexts, jd \in JobDescriptions, ind \in IndustryArgs :
          /\ req' = [req EXCEPT ![t] =
                        [resume_text |-> text, job_description |-> jd, industry |-> ind]]
          /\ IF ind # NotPassed
             THEN /\ outcome' = [outcome EXCEPT ![t] = "TypeError"]
                  /\ pc' = [pc EXCEPT ![t] = "done"]
                  /\ UNCHANGED <<rng, locals>>
             ELSE LET timestamp_seed == clock
                      content_hash == ContentHashes[text][hash_seed]
                  IN /\ use_mock
                     /\ rng' = RandomSeed(timestamp_seed + content_hash)
                     /\ locals' = [locals EXCEPT ![t] =
                                      [timestamp_seed |-> timestamp_seed,
                                       content_hash |-> content_hash]]
                     /\ pc' = [pc EXCEPT ![t] = "seeded"]
                     /\ UNCHANGED outcome
    /\ UNCHANGED <<clock, hash_seed, result, parse, http, unit>>

\* analysis_results = self._analyze_content(resume_text)
Analyze(t) ==
    /\ pc[t] = "seeded"
    /\ locals' = [locals EXCEPT ![t] =
                     [analysis_results |-> Analyses[req[t].resume_text]] @@ @]
    /\ pc' = [pc EXCEPT ![t] = "analyzed"]
    /\ UNCHANGED <<clock, rng, hash_seed, req, result, outcome>>
    /\ UNCHANGED <<parse, http, unit>>

\* score = self._calculate_dynamic_score(analysis_results): draws the jitter
\* from the global generator
Score(t) ==
    /\ pc[t] = "analyzed"
    /\ locals' = [locals EXCEPT ![t] =
                     [score |-> _calculate_dynamic_score(@.analysis_results, RandInt(rng))]
                     @@ @]
    /\ rng' = RandomAdvance(rng)
    /\ pc' = [pc EXCEPT ![t] = "scored"]
    /\ UNCHANGED <<clock, hash_seed, req, result, outcome, parse, http, unit>>

\* strengths, improvements and recommendations; the two timestamps are read
\* from the clock
Feedback(t) ==
    /\ pc[t] = "scored"
    /\ LET a == locals[t].analysis_results
       IN locals' = [locals EXCEPT ![t] =
                        [strengths |-> _generate_strengths(a, clock),
                         improvements |-> _generate_improvements(a),
                         recommendations |-> _generate_recommendations(a, clock, hash_seed)]
                        @@ @]
    /\ pc' = [pc EXCEPT ![t] = "feedback"]
    /\ UNCHANGED <<clock, rng, hash_seed, req, result, outcome>>
    /\ UNCHANGED <<parse, http, unit>>

\* the result record of _dynamic_mock_analysis
ResultRecord(l) ==
    [overall_score |-> l.score,
     strengths |-> l.strengths,
     areas_for_improvement |-> l.improvements,
     keyword_analysis |->
         [technical_keywords |-> l.analysis_results.found_keywords,
          missing_keywords |-> l.analysis_results.missing_keywords,
          keyword_density |-> l.analysis_results.keyword_density],
     formatting_feedback |->
         [structure |-> l.analysis_results.structure_feedback,
          readability |-> l.analysis_results.readability_feedback,
          suggestions |-> l.analysis_results.format_suggestions],
     recommendations |-> l.recommendations]

Return(t) ==
    /\ pc[t] = "feedback"
    /\ result' = [result EXCEPT ![t] = ResultRecord(locals[t])]
    /\ outcome' = [outcome EXCEPT ![t] = "returned"]
    /\ pc' = [pc EXCEPT ![t] = "done"]
    /\ UNCHANGED <<clock, rng, hash_seed, req, locals, parse, http, unit>>

Next ==
    \/ Tick
    \/ \E t \in Threads : analyze_resume(t)
    \/ \E t \in Threads : Analyze(t)
    \/ \E t \in Threads : Score(t)
    \/ \E t \in Threads : Feedback(t)
    \/ \E t \in Threads : Return(t)

Spec == Init /\ [][Next]_vars

\* The deployed server (uvicorn.run(app)) runs the async handlers on one
\* event loop, and a call of analyze_resume has no suspension point: a call
\* runs to its end before the next one starts.
InFlight(t) == pc[t] \notin {"idle", "done"}

\* no other call is under way
Alone(t) == \A u \in Threads \ {t} : ~InFlight(u)

SerialNext ==
    \/ Tick
    \/ \E t \in Threads : Alone(t) /\ analyze_resume(t)
    \/ \E t \in Threads : Alone(t) /\ Analyze(t)
    \/ \E t \in Threads : Alone(t) /\ Score(t)
    \/ \E t \in Threads : Alone(t) /\ Feedback(t)
    \/ \E t \in Threads : Alone(t) /\ Return(t)

SerialSpec == Init /\ [][SerialNext]_vars

(***************************************************************************)
(* upload_resume of src/app/main.py: the handler of POST /upload-resume.   *)
(* A thread serves one request, an upload or a direct call of the critic.  *)
(***************************************************************************)
\* the industry and job-description fields a client posts
FormIndustries == {"", "technology", "astrology"}
FormJobDescriptions == {"", JobPosting}

\* the files the clients post to the handler
Uploads == {EmptyFile, PdfFile, ScannedPdf, CorruptPdf, DocxFile, TextFile}

\* `s or None`
OrNone(s) == IF s = "" THEN None ELSE Str(s)

\* raise HTTPException(status_code=500, detail=f"Error processing resume: {str(e)}")
HttpError(error) == [status |-> 500, error |-> error]

\* the keys the rendering step subscripts
RenderedKeywordKeys == {"industry_keywords", "suggested_keywords", "keyword_coverage"}

Renderable(analysis) ==
    /\ {"keyword_analysis", "strengths", "areas_for_improvement",
        "formatting_feedback", "recommendations"} \subseteq DOMAIN analysis
    /\ RenderedKeywordKeys \subseteq DOMAIN analysis.keyword_analysis
    /\ {"suggestions", "structure", "readability"}
           \subseteq DOMAIN analysis.formatting_feedback

\* the HTMLResponse, as the values the page is built from
HtmlResponse(analysis) ==
    [status |-> 200,
     found |-> analysis.keyword_analysis.industry_keywords,
     suggested |-> analysis.keyword_analysis.suggested_keywords,
     coverage |-> analysis.keyword_analysis.keyword_coverage,
     strengths |-> analysis.strengths,
     improvements |-> analysis.areas_for_improvement,
     formatting |-> analysis.formatting_feedback,
     recommendations |-> analysis.recommendations]

\* steps 1: the request arrives, the file is read and parsed by its bytes
\* only; an exception of the parser ends the request with status 500
upload_resume(t) ==
    /\ http[t].stage = "idle"
    /\ pc[t] = "idle"
    /\ \E file \in Uploads, industry \in FormIndustries,
          job_description \in FormJobDescriptions :
          LET form == [file |-> file, industry |-> industry,
                       job_description |-> job_description]
              parsed == ParseOutcome(None, file)
          IN http' = [http EXCEPT ![t] =
                 IF parsed.tag = "raises"
                 THEN [stage |-> "responded", response |-> HttpError(parsed.error)]
                      @@ form
                 ELSE [stage |-> "parsed", extracted_text |-> parsed.text] @@ form]
    /\ UNCHANGED <<clock, rng, hash_seed, pc, req, locals, result, outcome,
                   parse, unit>>

\* step 2: critic.analyze_resume(extracted_text,
\*             job_description=job_description or None, industry=industry or None)
CallCritic(t) ==
    /\ http[t].stage = "parsed"
    /\ analyze_resume(t)
    /\ req'[t] = [resume_text |-> http[t].extracted_text,
                  job_description |-> OrNone(http[t].job_description),
                  industry |-> OrNone(http[t].industry)]

\* steps 3 and 4 when the call has returned, the except clause when it has
\* raised
Respond(t) ==
    /\ http[t].stage = "parsed"
    /\ pc[t] = "done"
    /\ http' = [http EXCEPT ![t] =
           [stage |-> "responded",
            response |->
                IF outcome[t] # "returned" THEN HttpError(outcome[t])
                ELSE IF ~Renderable(result[t]) THEN HttpError("KeyError")
                ELSE HtmlResponse(result[t])] @@ @]
    /\ UNCHANGED <<clock, rng, hash_seed, pc, req, locals, result, outcome,
                   parse, unit>>

\* a call of the critic that does not come from an upload
DirectCall(t) == http[t].stage = "idle" /\ analyze_resume(t)

HandlerNext ==
    \/ Tick
    \/ \E t \in Threads : upload_resume(t)
    \/ \E t \in Threads : Alone(t) /\ CallCritic(t)
    \/ \E t \in Threads : Respond(t)
    \/ \E t \in Threads : Alone(t) /\ DirectCall(t)
    \/ \E t \in Threads : Alone(t) /\ Analyze(t)
    \/ \E t \in Threads : Alone(t) /\ Score(t)
    \/ \E t \in Threads : Alone(t) /\ Feedback(t)
    \/ \E t \in Threads : Alone(t) /\ Return(t)

HandlerSpec == Init /\ [][HandlerNext]_vars

(***************************************************************************)
(* Calls of ResumeParser.parse_resume(filename, file_bytes), one per       *)
(* thread, in the steps of the method.                                     *)
(***************************************************************************)
\* the call comes in: empty bytes raise, other bytes are sniffed
parse_resume(t) ==
    /\ parse[t].stage = "idle"
    /\ \E filename \in Filenames, file_bytes \in Files :
          LET call == [filename |-> filename, file_bytes |-> file_bytes]
          IN parse' = [parse EXCEPT ![t] =
                 IF file_bytes.data = ""
                 THEN [stage |-> "done",
                       outcome |-> Raise("ValueError", "Empty file")] @@ call
                 ELSE [stage |-> "sniffed", kind |-> _detect_kind(file_bytes)]
                      @@ call]
    /\ UNCHANGED <<clock, rng, hash_seed, pc, req, locals, result, outcome,
                   http, unit>>

\* the secondary source of the kind: the extension of the filename
Hint(t) ==
    /\ parse[t].stage = "sniffed"
    /\ parse' = [parse EXCEPT ![t].stage = "typed",
                              ![t].kind = ExtensionHint(@, parse[t].filename)]
    /\ UNCHANGED <<clock, rng, hash_seed, pc, req, locals, result, outcome,
                   http, unit>>

\* the parser of the kind runs, or the kind is unknown
Extract(t) ==
    /\ parse[t].stage = "typed"
    /\ parse' = [parse EXCEPT ![t] =
           [stage |-> "done",
            outcome |-> Extraction(parse[t].kind, parse[t].file_bytes)] @@ @]
    /\ UNCHANGED <<clock, rng, hash_seed, pc, req, locals, result, outcome,
                   http, unit>>

ParserNext ==
    \/ \E t \in Threads : parse_resume(t)
    \/ \E t \in Threads : Hint(t)
    \/ \E t \in Threads : Extract(t)

ParserSpec == Init /\ [][ParserNext]_vars

(***************************************************************************)
(* The feedback generators called on their own.  Their input is the        *)
(* analysis of a resume made of one fragment of each kind, each on a line  *)
(* of its own, and of filler words that match nothing.                     *)
(***************************************************************************)
ContactFragments == {"", "jane@mail.com", "jane@mail.com 555-123-4567"}

KeywordFragments ==
    {"", "python", "python ruby php swift rust", "python ruby php swift rust html",
     "python ruby php swift rust html css vue flask", "github.com/jane",
     "github.com/jane python ruby php swift rust", "git api database agile",
     "github.com/jane api sql scrum python ruby php"}

SectionFragments ==
    {Join(KeepMembers(<<"experience", "education", "projects", "skills">>, S), " ") :
        S \in SUBSET {"experience", "education", "projects", "skills"}}

AchievementFragments ==
    {"", "improved build 5x", "improved build 5x\nreduced cost 20%"}

\* the length of the resume in words: as short as its fragments, or filled
\* up to one of these
FilledWordCounts == {249, 250}

\* the analysis of the resume made of the four fragments and filled up to
\* word_count words (0: no filler)
FragmentAnalysis(c, k, s, a, filled) ==
    LET words == WordCount(c) + WordCount(k) + WordCount(s) + WordCount(a)
        lines == LineCount(c) + LineCount(k) + LineCount(s) + LineCount(a)
    IN AnalysisRecord(IF filled = 0 THEN words ELSE filled,
                      IF filled = 0 THEN lines ELSE lines + 1,
                      HasEmail(c), HasPhone(c), FALSE, Contains("github", k),
                      FoundKeywords(TechKeywords, k), ImportantMissing(k),
                      SectionsFound(s), CountAchievements(a))

AnalysisInputs ==
    {FragmentAnalysis(c, k, s, a, filled) :
        c \in ContactFragments, k \in KeywordFragments, s \in SectionFragments,
        a \in AchievementFragments, filled \in {0} \cup FilledWordCounts}

\* a test holds an analysis; the generator of the random module is not used
FeedbackInit ==
    /\ clock = StartTime
    /\ rng = 0
    /\ hash_seed \in 0..MaxHashSeed
    /\ pc = [t \in Threads |-> "idle"]
    /\ req = [t \in Threads |-> NoRequest]
    /\ locals = [t \in Threads |-> NoLocals]
    /\ result = [t \in Threads |-> NoResult]
    /\ outcome = [t \in Threads |-> "none"]
    /\ parse = [t \in Threads |-> NoParse]
    /\ http = [t \in Threads |-> NoUpload]
    /\ unit \in {[stage |-> "input", analysis |-> a] : a \in AnalysisInputs}

\* strengths = critic._generate_strengths(analysis)
CallGenerateStrengths ==
    /\ unit.stage = "input"
    /\ "strengths" \notin DOMAIN unit
    /\ unit' = [strengths |-> _generate_strengths(unit.analysis, clock)] @@ unit
    /\ UNCHANGED <<clock, rng, hash_seed, pc, req, locals, result, outcome,
                   parse, http>>

\* recommendations = critic._generate_recommendations(analysis)
CallGenerateRecommendations ==
    /\ unit.stage = "input"
    /\ "recommendations" \notin DOMAIN unit
    /\ unit' = [recommendations |->
                    _generate_recommendations(unit.analysis, clock, hash_seed)]
               @@ unit
    /\ UNCHANGED <<clock, rng, hash_seed, pc, req, locals, result, outcome,
                   parse, http>>

FeedbackNext ==
    \/ Tick
    \/ CallGenerateStrengths
    \/ CallGenerateRecommendations

FeedbackSpec == FeedbackInit /\ [][FeedbackNext]_vars

(***************************************************************************)
(* Properties.                                                             *)
(***************************************************************************)
Returned(t) == outcome[t] = "returned"

Finished(t) == pc[t] = "done"

Blank(text) == ~NonBlank(text)

InList(x, list) == \E i \in 1..Len(list) : list[i] = x

\* C1: for every non-empty resume text the overall_score that analyze_resume
\* returns is an integer between 5 and 95.
ScoreWithinBounds ==
    \A t \in Threads :
        Returned(t) /\ req[t].resume_text # "" =>
            /\ result[t].overall_score \in Int
            /\ 5 <= result[t].overall_score
            /\ result[t].overall_score <= 95

\* a call has returned 95 for a text whose unclamped score exceeds 95 even
\* with the lowest jitter
ScoreClampedAtTop ==
    \E t \in Threads :
        /\ Returned(t)
        /\ req[t].resume_text # ""
        /\ result[t].overall_score = 95
        /\ UnclampedScore(locals[t].analysis_results, -5) > 95

\* C2: two calls with identical (resume_text, job_description, industry)
\* return identical result records, whenever each of them runs.
Determinism ==
    \A t1, t2 \in Threads :
        Returned(t1) /\ Returned(t2) /\ req[t1] = req[t2] => result[t1] = result[t2]

\* C3: a call with an empty or whitespace-only resume text (and arguments
\* the signature accepts) fails with ValidationError and returns no result.
BlankTextRejected ==
    \A t \in Threads :
        Finished(t) /\ req[t].industry = NotPassed /\ Blank(req[t].resume_text) =>
            outcome[t] = "ValidationError" /\ result[t] = NoResult

\* C4: a call with a non-empty industry that is not a registry key fails with
\* InvalidIndustryError.
UnknownIndustryRejected ==
    \A t \in Threads :
        (/\ Finished(t)
         /\ req[t].industry.tag = "str"
         /\ req[t].industry.v # ""
         /\ req[t].industry.v \notin IndustryKeys)
        => outcome[t] = "InvalidIndustryError"

\* C5: in every result, strengths, areas_for_improvement and recommendations
\* each hold at most 4 items.
ListsAtMostFour ==
    \A t \in Threads :
        Returned(t) =>
            /\ Len(result[t].strengths) <= 4
            /\ Len(result[t].areas_for_improvement) <= 4
            /\ Len(result[t].recommendations) <= 4

\* one call has returned 4 improvements and 4 recommendations although more
\* than 4 improvement rules fired and 5 recommendations were drafted, and
\* one call has returned 4 strengths although more than 4 strength rules fired
ListsWereTruncated ==
    /\ \E t \in Threads :
          LET a == locals[t].analysis_results
          IN /\ Returned(t)
             /\ Len(ImprovementRules(a)) > 4
             /\ Len(result[t].areas_for_improvement) = 4
             /\ Len(RecommendKeywords(a) \o RecommendMetrics(a)
                    \o RecommendSections(a, hash_seed)) = 3
             /\ Len(result[t].recommendations) = 4
    /\ \E t \in Threads :
          /\ Returned(t)
          /\ Len(StrengthRules(locals[t].analysis_results)) > 4
          /\ Len(result[t].strengths) = 4

\* C6: in the result for a non-blank resume no feedback list is empty, and the hard-coded fallback sentences
\* of a list (the generic strengths, the generic improvement) appear in it
\* only when the rules of that list produced no item.
FallbackOnlyWhenNoRuleFired ==
    \A t \in Threads :
        Returned(t) /\ NonBlank(req[t].resume_text) =>
            LET a == locals[t].analysis_results
                r == result[t]
            IN /\ Len(r.strengths) > 0
               /\ Len(r.areas_for_improvement) > 0
               /\ Len(r.recommendations) > 0
               /\ Len(r.formatting_feedback.suggestions) > 0
               /\ (\E i \in 1..Len(generic_strengths) :
                       InList(generic_strengths[i], r.strengths))
                  => Len(StrengthRules(a)) = 0
               /\ InList(ImprovementFallback, r.areas_for_improvement)
                  => Len(ImprovementRules(a)) = 0

\* the sentinel of keyword_coverage when there is no job description
CoverageSentinel == "-"

\* C7: the result of a call without job description (non-blank resume) has
\* a keyword_coverage field in keyword_analysis, equal to the sentinel.
CoverageSentinelWithoutJd ==
    \A t \in Threads :
        Returned(t) /\ NonBlank(req[t].resume_text) /\ req[t].job_description = None =>
            /\ "keyword_coverage" \in DOMAIN result[t].keyword_analysis
            /\ result[t].keyword_analysis.keyword_coverage = CoverageSentinel

\* the terms of the keyword table that the job posting names and the resume
\* text does not contain
JdTermsAbsentFrom ==
    [t \in ResumeTexts |->
        {k \in Elements(FlattenKeywords(TechKeywords)) :
            Contains(k, Lower(JobPosting)) /\ ~Contains(k, Lower(t))}]

\* C8: for the same resume, a call with a job description naming terms the
\* resume lacks and a call without job description return different
\* suggested keywords, and the keyword coverage goes from a percentage to
\* the sentinel.
JobDescriptionInfluencesResult ==
    \A t1, t2 \in Threads :
        (/\ Returned(t1) /\ Returned(t2)
         /\ req[t1].resume_text = req[t2].resume_text
         /\ NonBlank(req[t1].resume_text)
         /\ req[t1].job_description = Str(JobPosting)
         /\ JdTermsAbsentFrom[req[t1].resume_text] # {}
         /\ req[t2].job_description = None)
        => /\ result[t1].keyword_analysis.missing_keywords
                 # result[t2].keyword_analysis.missing_keywords
           /\ "keyword_coverage" \in DOMAIN result[t1].keyword_analysis
           /\ "keyword_coverage" \in DOMAIN result[t2].keyword_analysis
           /\ result[t1].keyword_analysis.keyword_coverage # CoverageSentinel
           /\ result[t2].keyword_analysis.keyword_coverage = CoverageSentinel

\* the score a call gets when no other call touches the generator between
\* its seeding and its draw
SoloScore(t) ==
    _calculate_dynamic_score(locals[t].analysis_results,
        RandInt(RandomSeed(locals[t].timestamp_seed + locals[t].content_hash)))

\* C9: under any interleaving of two calls on parallel threads, each call's
\* overall_score is the one it gets when run alone at the same time.
ScoreAsWhenRunAlone ==
    \A t \in Threads : Returned(t) => result[t].overall_score = SoloScore(t)

\* C10: no step of a call changes process-global state (the generator of
\* the random module, the hash seed).
NoGlobalMutation == [][rng' = rng /\ hash_seed' = hash_seed]_vars

\* the values the red-flag penalty of the canonical scorer can take: -8 per
\* pattern capped at -30, and two further deductions of 10
RedFlagPenalties == -50..0

\* a repository or portfolio signal among the signals of the analysis
RepositorySignal(a) == a.has_github \/ InList("Projects", a.sections_found)

CanonicalClamp(x) == Max(5, Min(95, x))

\* the canonical formula: base 55 and independently capped adjustments
CanonicalScore(a, unresolved, red_flag_penalty) ==
    LET present == Len(a.sections_found)
        missing == Len(AllSections) - present
    IN CanonicalClamp(55 + Min(3 * present, 12)
                         + Min(Len(a.found_keywords), 10)
                         + (IF RepositorySignal(a) THEN 4 ELSE 0)
                         + Min(2 * a.achievements_with_numbers, 6)
                         - Min(3 * missing, 9)
                         - Min(unresolved, 5)
                         + red_flag_penalty)

\* C11: the score of a call (non-blank resume, no job description, so no
\* unresolved suggestion) equals clamp(55 + min(3*present_sections, 12)
\* + min(found_keywords, 10) + (4 if repository signal)
\* + min(2*quantified_hits, 6) - min(3*missing_sections, 9)
\* + red_flag_penalty, 5, 95) for some admissible red-flag penalty.
ScoreIsCanonicalFormula ==
    \A t \in Threads :
        (/\ Returned(t)
         /\ NonBlank(req[t].resume_text)
         /\ req[t].job_description = None)
        => \E p \in RedFlagPenalties :
              result[t].overall_score = CanonicalScore(locals[t].analysis_results, 0, p)

\* kw occurs in s as a whole token: no letter, digit or underscore touches
\* the occurrence on either side
OccursAsToken(kw, s) ==
    \E p \in 1..(Len(s) - Len(kw) + 1) :
        /\ StartsAt(s, p, kw)
        /\ ~IsWordAt(s, p - 1)
        /\ ~IsWordAt(s, p + Len(kw))

\* the keywords of the table that occur as whole tokens in each submitted
\* text, case-folded
WholeTokenKeywords ==
    [t \in ResumeTexts |->
        {k \in Elements(FlattenKeywords(TechKeywords)) : OccursAsToken(k, Lower(t))}]

\* C12: a keyword is reported in technical_keywords only when it occurs in
\* the resume as a whole token, and a keyword that occurs only inside a
\* longer token does not suppress its missing-keyword suggestion (Git is
\* suggested unless git is a token of the resume).
KeywordsFoundAsWholeTokens ==
    \A t \in Threads :
        Returned(t) /\ NonBlank(req[t].resume_text) =>
            LET tokens == WholeTokenKeywords[req[t].resume_text]
                ka == result[t].keyword_analysis
            IN /\ \A k \in Elements(FlattenKeywords(TechKeywords)) :
                      InList(Title(k), ka.technical_keywords) => k \in tokens
               /\ "git" \notin tokens => InList("Git", ka.missing_keywords)

\* the sentinel industry
UnknownIndustry == "unknown"

\* cue phrases of the detection rules
IndustryCues == {"cashier", "pos", "customer service", "icu", "rn"}

\* the text the detection rules run against
DetectionText(text, jd) ==
    Lower(text \o " " \o (IF jd = None THEN "" ELSE jd.v))

\* the number of cues matching as whole words, for each submitted resume
\* and job description
CueMatches ==
    [t \in ResumeTexts |-> [jd \in JobDescriptions |->
        Cardinality({c \in IndustryCues : OccursAsToken(c, DetectionText(t, jd))})]]

\* C13: the result of a call (non-blank resume) carries a detected industry,
\* and with no industry forced and fewer than 2 cues matching the resume and
\* job-description text that industry is the sentinel unknown.
ResultCarriesIndustry ==
    \A t \in Threads :
        Returned(t) /\ NonBlank(req[t].resume_text) =>
            /\ "industry" \in DOMAIN result[t]
            /\ (/\ req[t].industry \in {NotPassed, None}
                /\ CueMatches[req[t].resume_text][req[t].job_description] < 2)
               => result[t].industry = UnknownIndustry

\* the upload of thread t has been answered
Responded(t) == http[t].stage = "responded"

\* C14: an upload whose text is extracted is answered only after the critic
\* was called with the extracted text, the job description and the industry
\* (empty mapped to None), and the answer is the HTML page built from the
\* result, not an error response.
UploadIsRendered ==
    \A t \in Threads :
        Responded(t) /\ "extracted_text" \in DOMAIN http[t] =>
            /\ req[t] = [resume_text |-> http[t].extracted_text,
                         job_description |-> OrNone(http[t].job_description),
                         industry |-> OrNone(http[t].industry)]
            /\ http[t].response.status = 200

\* the call of thread t has settled on a kind
Typed(t) == parse[t].stage = "typed" \/ (parse[t].stage = "done" /\ "kind" \in DOMAIN parse[t])

Parsed(t) == parse[t].stage = "done"

\* the bytes are those of a PDF, of a Word document
LooksPdf(b) == StartsWith(b.data, "%PDF-")

LooksDocx(b) ==
    /\ StartsWith(b.data, "PK")
    /\ b.zip # BadZipFile
    /\ "[Content_Types].xml" \in b.zip.names
    /\ \E n \in b.zip.names : StartsWith(n, "word/")

\* C15: parse_resume takes the format from the content: bytes sniffed as
\* PDF or DOCX are parsed as such whatever the filename is (mismatching or
\* absent), two calls with such bytes end alike, and the kind comes from
\* the extension only when the sniffing found none.
FormatFromContent ==
    /\ \A t \in Threads :
          Typed(t) =>
              LET b == parse[t].file_bytes
                  kind == parse[t].kind
                  name == parse[t].filename
              IN /\ LooksPdf(b) => kind = Str("pdf")
                 /\ ~LooksPdf(b) /\ LooksDocx(b) => kind = Str("docx")
                 /\ ~LooksPdf(b) /\ ~LooksDocx(b) /\ kind # None =>
                        /\ name # None
                        /\ SplitExt(Lower(name.v)) = "." \o kind.v
    /\ \A t1, t2 \in Threads :
          (/\ Parsed(t1) /\ Parsed(t2)
           /\ parse[t1].file_bytes = parse[t2].file_bytes
           /\ LooksPdf(parse[t1].file_bytes) \/ LooksDocx(parse[t1].file_bytes))
          => parse[t1].outcome = parse[t2].outcome

\* a PDF named Resume.DOCX and a Word document named resume.pdf have both
\* been extracted, and so has a file that no sniffing recognises, by the
\* extension of its name
MismatchingNamesIgnored ==
    /\ \E t \in Threads :
          /\ Parsed(t)
          /\ parse[t].file_bytes = PdfFile
          /\ parse[t].filename = Str("Resume.DOCX")
          /\ parse[t].outcome = Ok(MediumResume)
    /\ \E t \in Threads :
          /\ Parsed(t)
          /\ parse[t].file_bytes = OffsetPdf
          /\ parse[t].filename = Str("resume.pdf")
          /\ parse[t].outcome.tag = "returned"

\* C16: a call of parse_resume ends with a text that is neither empty nor
\* whitespace only, or with an error; empty bytes, bytes of no recognised
\* kind and containers without text end with an error.
NeverBlankText ==
    \A t \in Threads :
        Parsed(t) =>
            LET o == parse[t].outcome
            IN /\ o.tag \in {"returned", "raises"}
               /\ o.tag = "returned" => o.text # "" /\ NonBlank(o.text)
               /\ parse[t].file_bytes.data = "" => o.tag = "raises"
               /\ ("kind" \in DOMAIN parse[t] /\ parse[t].kind = None) => o.tag = "raises"

\* a PDF whose pages hold white space only has ended with an error, and a
\* PDF whose page text is surrounded by white space has been returned
\* without it
BlankExtractionRaised ==
    /\ \E t \in Threads :
          /\ Parsed(t)
          /\ parse[t].file_bytes = ScannedPdf
          /\ parse[t].outcome = Raise("ValueError", "Unable to extract text from PDF")
    /\ \E t \in Threads :
          /\ Parsed(t)
          /\ parse[t].file_bytes = PartlyReadablePdf
          /\ parse[t].outcome = Ok(GithubResume)

\* the stage that produces the named local of the call of thread t is over
StageDone(t, name) == name \in DOMAIN locals[t]

\* C17: in a call (non-blank resume) the Detector has completed before the Analyzer, the
\* Analyzer before the Scorer, the Scorer before the Feedback Generator, and
\* all four before the result is assembled; the Scorer and the Feedback
\* Generator work on the Analyzer's output for the text of the same call.
StagesInOrder ==
    \A t \in Threads :
        pc[t] # "idle" /\ NonBlank(req[t].resume_text) =>
        /\ StageDone(t, "analysis_results") => StageDone(t, "industry")
        /\ StageDone(t, "score") => StageDone(t, "analysis_results")
        /\ StageDone(t, "strengths") => StageDone(t, "score")
        /\ result[t] # NoResult =>
               \A name \in {"industry", "analysis_results", "score", "strengths"} :
                   StageDone(t, name)
        /\ StageDone(t, "analysis_results") =>
               locals[t].analysis_results = Analyses[req[t].resume_text]
        /\ StageDone(t, "score") =>
               \E jitter \in -5..5 :
                   locals[t].score
                       = _calculate_dynamic_score(locals[t].analysis_results, jitter)
        /\ StageDone(t, "strengths") =>
               locals[t].improvements = _generate_improvements(locals[t].analysis_results)

\* C19: the analysis handed to the scorer never holds more than 8 found
\* keywords, so the keyword rule of the scorer contributes -5, 0 or +5 to
\* every score and never +10, while keyword_density is computed from the
\* count before the cut.
KeywordBonusCapped ==
    \A t \in Threads :
        StageDone(t, "score") =>
            LET a == locals[t].analysis_results
            IN /\ Len(a.found_keywords) <= 8
               /\ KeywordPoints(Len(a.found_keywords)) <= 5
               /\ \E jitter \in -5..5, points \in {-5, 0, 5} :
                      locals[t].score =
                          ClampScore(70 + WordCountPoints(a.word_count)
                                        + ContactPoints(a) + points
                                        + SectionPoints(Len(a.sections_found))
                                        + AchievementPoints(a.achievements_with_numbers)
                                        + jitter)

\* a call has returned for a text with more than 10 keywords: the density
\* is Excellent, 8 keywords are reported, and the score, inside the clamp,
\* is below what the +10 branch would give with the lowest jitter
ExcellentDensityWithoutBonus ==
    \E t \in Threads :
        /\ Returned(t)
        /\ Len(FoundKeywords(TechKeywords, Lower(req[t].resume_text))) > 10
        /\ result[t].keyword_analysis.keyword_density = "Excellent"
        /\ Len(result[t].keyword_analysis.technical_keywords) = 8
        /\ result[t].overall_score > 60
        /\ result[t].overall_score
               < UnclampedScore(locals[t].analysis_results, -5) + 5

\* some item of the list starts with the given words
HasItemStarting(list, words) == \E i \in 1..Len(list) : StartsWith(list[i], words)

\* how many of the three conditional recommendations fire on analysis a
ConditionalRecommendations(a) ==
    (IF Len(a.missing_keywords) > 0 THEN 1 ELSE 0)
    + (IF a.achievements_with_numbers < 2 THEN 1 ELSE 0)
    + (IF Len(a.sections_found) < 4 THEN 1 ELSE 0)

\* C18: the recommendations _generate_recommendations returns hold the
\* advice to tailor keywords to the job description, for every analysis,
\* and hold the "Last analyzed" entry exactly when at most two of the three
\* conditional recommendations fired.
TailorAdviceKept ==
    "recommendations" \in DOMAIN unit =>
        /\ InList(TailorAdvice, unit.recommendations)
        /\ HasItemStarting(unit.recommendations, "Last analyzed: ")
               <=> ConditionalRecommendations(unit.analysis) <= 2

\* all three conditional recommendations fired: the advice is the fourth
\* and last item and the timestamp entry is cut
TailorAdviceLastOfFour ==
    /\ "recommendations" \in DOMAIN unit
    /\ ConditionalRecommendations(unit.analysis) = 3
    /\ Len(unit.recommendations) = 4
    /\ unit.recommendations[4] = TailorAdvice
    /\ ~HasItemStarting(unit.recommendations, "Last analyzed: ")

\* how many of the six content rules of _generate_strengths fire on a
StrengthRulesFired(a) ==
    (IF a.word_count >= 250 THEN 1 ELSE 0)
    + (IF a.has_email /\ a.has_phone THEN 1 ELSE 0)
    + (IF Len(a.found_keywords) > 5 THEN 1 ELSE 0)
    + (IF Len(a.sections_found) >= 3 THEN 1 ELSE 0)
    + (IF a.achievements_with_numbers > 0 THEN 1 ELSE 0)
    + (IF a.has_github THEN 1 ELSE 0)

\* C20: _generate_strengths returns exactly 4 items for every analysis, the
\* first generic strength is never one of them (the padding draws the
\* generic entries 1 to 3 only), and the timestamp entry is among them
\* exactly when fewer than 4 content rules fired.
StrengthsExactlyFour ==
    "strengths" \in DOMAIN unit =>
        /\ Len(unit.strengths) = 4
        /\ ~InList(generic_strengths[1], unit.strengths)
        /\ HasItemStarting(unit.strengths, "Analysis completed on ")
               <=> StrengthRulesFired(unit.analysis) < 4

\* no content rule fired: the timestamp entry comes first and the padding
\* adds the generic entries 1, 2 and 3
PaddedAfterTimestamp ==
    /\ "strengths" \in DOMAIN unit
    /\ StrengthRulesFired(unit.analysis) = 0
    /\ StartsWith(unit.strengths[1], "Analysis completed on ")
    /\ SubSeq(unit.strengths, 2, 4) = SubSeq(generic_strengths, 2, 4)

====
